---- MODULE Spec2Model ----
(***************************************************************************)
(* Model of autograd_4bit.py: the backend registry, the autograd operator  *)
(* variants, the quantized linear module, the module-graph substitution    *)
(* and the precision conversions.                                          *)
(*                                                                         *)
(* Tensors are records [dtype, shape, val]; val is an abstract content     *)
(* token.  The native kernels (mm4b, tu) are external: a kernel call is    *)
(* the record of its name, its arguments and its transpose flag.           *)
(***************************************************************************)
EXTENDS Integers, Sequences, FiniteSets, TLC

VARIABLES
    gptq_backend_loaded,    \* import matmul_utils_4bit succeeded (line 74)
    triton_backend_loaded,  \* import triton_utils succeeded (line 106)
    debug_asserts,          \* assert statements are executed (no python -O)
    AutogradMatmul4bit,     \* module global, line 119
    AutogradMatmul2bit,     \* module global, line 120
    backend,                \* module global, line 121
    last_switch,            \* history: target of the latest successful switch, "" if none
    layer,                  \* an Autograd4bitQuantLinear under call, or NoLayer
    ctx,                    \* context of the latest successful operator apply
    heap,                   \* object id -> module object of the host model
    load_args,              \* groupsize, is_v1_model, bits given to the loader
    call                    \* the latest call and its outcome

vars == <<gptq_backend_loaded, triton_backend_loaded, debug_asserts,
          AutogradMatmul4bit, AutogradMatmul2bit, backend, last_switch,
          layer, ctx, heap, load_args, call>>

registry == <<gptq_backend_loaded, triton_backend_loaded, debug_asserts,
              AutogradMatmul4bit, AutogradMatmul2bit, backend, last_switch>>

(***************************************************************************)
(* Bounds of the model.                                                    *)
(***************************************************************************)
MaxBits == 4        \* bit-widths 2..MaxBits are tried
MaxVal == 1         \* buffer content tokens 0..MaxVal

Block == 256        \* packing block of the layout
Group == Block \div 2   \* a group size given explicitly by a caller

BitWidths == 2..MaxBits
Features == {Block}
Val == 0..MaxVal
GroupSizes == {-1, Group}

(***************************************************************************)
(* Python values.                                                          *)
(***************************************************************************)
None == "None"
NoExc == "none"
NotImplementedError == "NotImplementedError"
UnboundLocalError == "UnboundLocalError: grad"
AssertionError == "AssertionError"
AttributeError == "AttributeError: qzeros"
ErrQuantCuda == "ValueError: quant_cuda not found. Please reinstall with pip install ."
ErrTriton == "ValueError: Triton not found. Please install triton"
ErrBackend == "ValueError: Backend not supported."
ErrBitwidth == "ValueError: Unsupported bitwidth."

Tensor(dtype, shape, val) == [dtype |-> dtype, shape |-> shape, val |-> val]
NoneT == Tensor("None", <<>>, 0)         \* the value None where a tensor may stand
Missing == Tensor("Missing", <<>>, 0)    \* the attribute was never registered

Pow2(n) == IF n = 0 THEN 1 ELSE IF n = 1 THEN 2 ELSE IF n = 2 THEN 4
           ELSE IF n = 3 THEN 8 ELSE IF n = 4 THEN 16 ELSE IF n = 5 THEN 32
           ELSE IF n = 6 THEN 64 ELSE IF n = 7 THEN 128 ELSE 256

\* math.ceil(a / b) for positive integers
CeilDiv(a, b) == (a + b - 1) \div b

(***************************************************************************)
(* Operator classes (lines 17-103).                                        *)
(***************************************************************************)
AutogradMatmul4bitNotImplemented == "AutogradMatmul4bitNotImplemented"
AutogradMatmul4bitCuda == "AutogradMatmul4bitCuda"
AutogradMatmul2bitCuda == "AutogradMatmul2bitCuda"
AutogradMatmul4bitTriton == "AutogradMatmul4bitTriton"

KCall(fn, args, transpose) == [fn |-> fn, args |-> args, transpose |-> transpose]
NoOut == [kernel |-> KCall("none", <<>>, FALSE), cloned |-> FALSE, bias |-> NoneT]
Clone(k) == [kernel |-> k, cloned |-> TRUE, bias |-> NoneT]
NoCtx == [op |-> "none", saved_tensors |-> <<>>, bits |-> -1, maxq |-> -1,
          needs_input_grad |-> <<>>]
NeedsInputGrad(x) == <<x.requires_grad, FALSE, FALSE, FALSE, FALSE, FALSE, FALSE>>

X(rg) == [name |-> "x", requires_grad |-> rg]
GradOutput == [name |-> "grad_output", requires_grad |-> FALSE]

OpResult(exc, kernels, out, c) ==
    [exc |-> exc, kernels |-> kernels, out |-> out, ctx |-> c]

\* AutogradMatmul4bitCuda.forward
Cuda4Forward(x, qweight, scales, zeros, g_idx, bits, maxq) ==
    LET k == IF g_idx = NoneT
             THEN KCall("mm4b._matmul4bit_v1_recons", <<x, qweight, scales, zeros>>, FALSE)
             ELSE KCall("mm4b._matmul4bit_v2_recons", <<x, qweight, scales, zeros, g_idx>>, FALSE)
    IN OpResult(NoExc, <<k>>, Clone(k),
                [op |-> AutogradMatmul4bitCuda,
                 saved_tensors |-> <<qweight, scales, zeros, g_idx>>,
                 bits |-> -1, maxq |-> -1,
                 needs_input_grad |-> NeedsInputGrad(x)])

\* AutogradMatmul2bitCuda.forward
Cuda2Forward(x, qweight, scales, zeros, g_idx, bits, maxq) ==
    LET k == KCall("mm4b._matmul2bit_v2_recons", <<x, qweight, scales, zeros, g_idx>>, FALSE)
    IN OpResult(NoExc, <<k>>, Clone(k),
                [op |-> AutogradMatmul2bitCuda,
                 saved_tensors |-> <<qweight, scales, zeros, g_idx>>,
                 bits |-> -1, maxq |-> -1,
                 needs_input_grad |-> NeedsInputGrad(x)])

\* AutogradMatmul4bitTriton.forward
Triton4Forward(x, qweight, scales, qzeros, g_idx, bits, maxq) ==
    LET k == KCall("tu.triton_matmul", <<x, qweight, scales, qzeros, g_idx, bits, maxq>>, FALSE)
    IN OpResult(NoExc, <<k>>, Clone(k),
                [op |-> AutogradMatmul4bitTriton,
                 saved_tensors |-> <<qweight, scales, qzeros, g_idx>>,
                 bits |-> bits, maxq |-> maxq,
                 needs_input_grad |-> NeedsInputGrad(x)])

\* mutant: the placeholder returns an empty result instead of raising
NotImplementedForward_silent(x, qweight, scales, zeros, g_idx, bits, maxq) ==
    OpResult(NoExc, <<>>, NoOut, NoCtx)

\* AutogradMatmul4bitNotImplemented.forward
NotImplementedForward(x, qweight, scales, zeros, g_idx, bits, maxq) ==
    OpResult(NotImplementedError, <<>>, NoOut, NoCtx)

\* torch.autograd.Function.apply on the class bound to a global
Apply(op, x, qweight, scales, zeros, g_idx, bits, maxq) ==
    IF op = AutogradMatmul4bitCuda
    THEN Cuda4Forward(x, qweight, scales, zeros, g_idx, bits, maxq)
    ELSE IF op = AutogradMatmul2bitCuda
    THEN Cuda2Forward(x, qweight, scales, zeros, g_idx, bits, maxq)
    ELSE IF op = AutogradMatmul4bitTriton
    THEN Triton4Forward(x, qweight, scales, zeros, g_idx, bits, maxq)
    ELSE NotImplementedForward(x, qweight, scales, zeros, g_idx, bits, maxq)

\* the value None in a gradient slot
NoneG == KCall("None", <<>>, FALSE)

\* return grad, None, None, None, None, None, None
Grads(exc, kernels, g) ==
    [exc |-> exc, kernels |-> kernels,
     grads |-> IF exc = NoExc THEN <<g, NoneG, NoneG, NoneG, NoneG, NoneG, NoneG>> ELSE <<>>]

\* mutant: transpose=True is forgotten in the recons calls
Cuda4Backward_no_transpose(c, grad_output) ==
    LET qweight == c.saved_tensors[1]
        scales == c.saved_tensors[2]
        zeros == c.saved_tensors[3]
        g_idx == c.saved_tensors[4]
        k == IF g_idx = NoneT
             THEN KCall("mm4b._matmul4bit_v1_recons", <<grad_output, qweight, scales, zeros>>, FALSE)
             ELSE KCall("mm4b._matmul4bit_v2_recons", <<grad_output, qweight, scales, zeros, g_idx>>, FALSE)
    IN IF c.needs_input_grad[1]
       THEN Grads(NoExc, <<k>>, k)
       ELSE Grads(UnboundLocalError, <<>>, NoneG)

\* AutogradMatmul4bitCuda.backward: grad is bound only inside the if
Cuda4Backward(c, grad_output) ==
    LET qweight == c.saved_tensors[1]
        scales == c.saved_tensors[2]
        zeros == c.saved_tensors[3]
        g_idx == c.saved_tensors[4]
        k == IF g_idx = NoneT
             THEN KCall("mm4b._matmul4bit_v1_recons", <<grad_output, qweight, scales, zeros>>, TRUE)
             ELSE KCall("mm4b._matmul4bit_v2_recons", <<grad_output, qweight, scales, zeros, g_idx>>, TRUE)
    IN IF c.needs_input_grad[1]
       THEN Grads(NoExc, <<k>>, k)
       ELSE Grads(UnboundLocalError, <<>>, NoneG)

\* AutogradMatmul2bitCuda.backward: grad is bound only inside the if
Cuda2Backward(c, grad_output) ==
    LET qweight == c.saved_tensors[1]
        scales == c.saved_tensors[2]
        zeros == c.saved_tensors[3]
        g_idx == c.saved_tensors[4]
        k == KCall("mm4b._matmul2bit_v2_recons", <<grad_output, qweight, scales, zeros, g_idx>>, TRUE)
    IN IF c.needs_input_grad[1]
       THEN Grads(NoExc, <<k>>, k)
       ELSE Grads(UnboundLocalError, <<>>, NoneG)

\* AutogradMatmul4bitTriton.backward: grad_input starts as None
Triton4Backward(c, grad_output) ==
    LET qweight == c.saved_tensors[1]
        scales == c.saved_tensors[2]
        qzeros == c.saved_tensors[3]
        g_idx == c.saved_tensors[4]
        k == KCall("tu.triton_matmul_transpose",
                   <<grad_output, qweight, scales, qzeros, g_idx, c.bits, c.maxq>>, TRUE)
    IN IF c.needs_input_grad[1]
       THEN Grads(NoExc, <<k>>, k)
       ELSE Grads(NoExc, <<>>, NoneG)

\* AutogradMatmul4bitNotImplemented.backward
NotImplementedBackward(c, grad_output) == Grads(NotImplementedError, <<>>, NoneG)

\* backward of the class the context was made by
OpBackward(c, grad_output) ==
    IF c.op = AutogradMatmul4bitCuda THEN Cuda4Backward(c, grad_output)
    ELSE IF c.op = AutogradMatmul2bitCuda THEN Cuda2Backward(c, grad_output)
    ELSE IF c.op = AutogradMatmul4bitTriton THEN Triton4Backward(c, grad_output)
    ELSE NotImplementedBackward(c, grad_output)

(***************************************************************************)
(* Backend registry (lines 111-150).                                       *)
(***************************************************************************)
is_triton_backend_available == triton_backend_loaded
is_gptq_backend_available == gptq_backend_loaded

\* module-level selection at import, lines 119-130
InitialSelection(gptq, triton) ==
    IF gptq
    THEN [op4 |-> AutogradMatmul4bitCuda, op2 |-> AutogradMatmul2bitCuda, backend |-> "cuda"]
    ELSE IF triton
    THEN [op4 |-> AutogradMatmul4bitTriton, op2 |-> AutogradMatmul4bitNotImplemented,
          backend |-> "triton"]
    ELSE [op4 |-> AutogradMatmul4bitNotImplemented, op2 |-> AutogradMatmul4bitNotImplemented,
          backend |-> None]

BackendNames == {"cuda", "triton", "rocm"}

NoCall == [op |-> "none", to_backend |-> "", grad_enabled |-> FALSE, x |-> X(FALSE),
           exc |-> NoExc, applied |-> "none", kernels |-> <<>>, out |-> NoOut,
           grads |-> <<>>, names |-> {}, quantized_before |-> {}]

\* mutant: the globals are rebound before the availability check
switch_backend_to_assign_first(to_backend) ==
    IF to_backend = "cuda"
    THEN [exc |-> IF ~is_gptq_backend_available THEN ErrQuantCuda ELSE NoExc,
          op4 |-> AutogradMatmul4bitCuda, backend |-> "cuda"]
    ELSE IF to_backend = "triton"
    THEN [exc |-> IF ~is_triton_backend_available THEN ErrTriton ELSE NoExc,
          op4 |-> AutogradMatmul4bitTriton, backend |-> "triton"]
    ELSE [exc |-> ErrBackend, op4 |-> AutogradMatmul4bit, backend |-> backend]

\* mutant: "global backend" is missing, the assignment binds a local
switch_backend_to_local_backend(to_backend) ==
    IF to_backend = "cuda"
    THEN IF ~is_gptq_backend_available
         THEN [exc |-> ErrQuantCuda, op4 |-> AutogradMatmul4bit, backend |-> backend]
         ELSE [exc |-> NoExc, op4 |-> AutogradMatmul4bitCuda, backend |-> backend]
    ELSE IF to_backend = "triton"
    THEN IF ~is_triton_backend_available
         THEN [exc |-> ErrTriton, op4 |-> AutogradMatmul4bit, backend |-> backend]
         ELSE [exc |-> NoExc, op4 |-> AutogradMatmul4bitTriton, backend |-> backend]
    ELSE [exc |-> ErrBackend, op4 |-> AutogradMatmul4bit, backend |-> backend]

\* mutant: "global AutogradMatmul4bit" is missing, the assignment binds a local
switch_backend_to_local_operator(to_backend) ==
    IF to_backend = "cuda"
    THEN IF ~is_gptq_backend_available
         THEN [exc |-> ErrQuantCuda, op4 |-> AutogradMatmul4bit, backend |-> backend]
         ELSE [exc |-> NoExc, op4 |-> AutogradMatmul4bit, backend |-> "cuda"]
    ELSE IF to_backend = "triton"
    THEN IF ~is_triton_backend_available
         THEN [exc |-> ErrTriton, op4 |-> AutogradMatmul4bit, backend |-> backend]
         ELSE [exc |-> NoExc, op4 |-> AutogradMatmul4bit, backend |-> "triton"]
    ELSE [exc |-> ErrBackend, op4 |-> AutogradMatmul4bit, backend |-> backend]

\* switch_backend_to rebinds AutogradMatmul4bit and backend, or raises
switch_backend_to(to_backend) ==
    IF to_backend = "cuda"
    THEN IF ~is_gptq_backend_available
         THEN [exc |-> ErrQuantCuda, op4 |-> AutogradMatmul4bit, backend |-> backend]
         ELSE [exc |-> NoExc, op4 |-> AutogradMatmul4bitCuda, backend |-> "cuda"]
    ELSE IF to_backend = "triton"
    THEN IF ~is_triton_backend_available
         THEN [exc |-> ErrTriton, op4 |-> AutogradMatmul4bit, backend |-> backend]
         ELSE [exc |-> NoExc, op4 |-> AutogradMatmul4bitTriton, backend |-> "triton"]
    ELSE [exc |-> ErrBackend, op4 |-> AutogradMatmul4bit, backend |-> backend]

SwitchBackendTo(to_backend) ==
    LET r == switch_backend_to(to_backend) IN
    /\ AutogradMatmul4bit' = r.op4
    /\ backend' = r.backend
    /\ last_switch' = IF r.exc = NoExc THEN to_backend ELSE last_switch
    /\ call' = [NoCall EXCEPT !.op = "switch_backend_to", !.to_backend = to_backend,
                              !.exc = r.exc]
    /\ UNCHANGED <<gptq_backend_loaded, triton_backend_loaded, debug_asserts,
                   AutogradMatmul2bit, layer, ctx, heap, load_args>>

\* matmul4bit_with_backend: the direct kernel of the active backend
matmul4bit_with_backend(x, qweight, scales, qzeros, g_idx, bits, maxq, groupsize) ==
    IF backend = "cuda"
    THEN LET k == KCall("mm4b.matmul4bit", <<x, qweight, scales, qzeros, g_idx, groupsize>>, FALSE)
         IN OpResult(NoExc, <<k>>, [kernel |-> k, cloned |-> FALSE, bias |-> NoneT], NoCtx)
    ELSE IF backend = "triton"
    THEN IF debug_asserts /\ qzeros.dtype # "int32"
         THEN OpResult(AssertionError, <<>>, NoOut, NoCtx)
         ELSE LET k == KCall("tu.triton_matmul",
                             <<x, qweight, scales, qzeros, g_idx, bits, maxq>>, FALSE)
              IN OpResult(NoExc, <<k>>, [kernel |-> k, cloned |-> FALSE, bias |-> NoneT], NoCtx)
    ELSE OpResult(ErrBackend, <<>>, NoOut, NoCtx)

(***************************************************************************)
(* Autograd4bitQuantLinear (lines 164-208).                                *)
(***************************************************************************)
QuantKind == "Autograd4bitQuantLinear"
NoChildren == <<>>

\* __init__: torch.empty leaves the contents unspecified, fill is what they
\* happen to be
Autograd4bitQuantLinear(in_features, out_features, groupsize_arg, is_v1_model, bits, fill) ==
    LET groupsize == IF groupsize_arg # -1 THEN groupsize_arg ELSE in_features
        ngroups == CeilDiv(in_features, groupsize)
    IN [kind |-> QuantKind,
        children |-> NoChildren,
        in_features |-> in_features,
        out_features |-> out_features,
        bits |-> bits,
        maxq |-> Pow2(bits) - 1,
        groupsize |-> groupsize,
        is_v1_model |-> is_v1_model,
        disable_bias |-> FALSE,
        zeros |-> IF is_v1_model THEN Tensor("float32", <<out_features, 1>>, fill)
                  ELSE Missing,
        qzeros |-> IF is_v1_model THEN Missing
                   ELSE Tensor("int32",
                               <<ngroups, (out_features \div 256) * (bits * 8)>>, fill),
        scales |-> IF is_v1_model THEN Tensor("float32", <<out_features, 1>>, fill)
                   ELSE Tensor("float32", <<ngroups, out_features>>, fill),
        g_idx |-> IF is_v1_model THEN NoneT
                  ELSE Tensor("int32", <<in_features>>, (in_features - 1) \div groupsize),
        bias |-> Tensor("float32", <<out_features>>, fill),
        qweight |-> Tensor("int32",
                           <<(in_features \div 256) * (bits * 8), out_features>>, fill)]

NoLayer == [kind |-> None]

FwdResult(r, applied) ==
    [exc |-> r.exc, applied |-> applied, kernels |-> r.kernels, out |-> r.out, ctx |-> r.ctx]

\* out += self.bias
AddBias(out, bias) == [out EXCEPT !.bias = bias]

\* mutant: the 2-bit branch is a plain else, so every other width takes it
forward_else_2bit(self, x, grad_enabled) ==
    LET r == IF self.bits = 4
             THEN LET z == IF ~self.is_v1_model THEN self.qzeros ELSE self.zeros IN
                  IF grad_enabled
                  THEN FwdResult(Apply(AutogradMatmul4bit, x, self.qweight, self.scales, z,
                                       self.g_idx, self.bits, self.maxq),
                                 AutogradMatmul4bit)
                  ELSE FwdResult(matmul4bit_with_backend(x, self.qweight, self.scales, z,
                                       self.g_idx, self.bits, self.maxq, self.groupsize),
                                 "none")
             ELSE IF self.qzeros = Missing
                  THEN FwdResult(OpResult(AttributeError, <<>>, NoOut, NoCtx), "none")
                  ELSE FwdResult(Apply(AutogradMatmul2bit, x, self.qweight, self.scales,
                                       self.qzeros, self.g_idx, self.bits, self.maxq),
                                 AutogradMatmul2bit)
    IN IF r.exc # NoExc
       THEN r
       ELSE IF ~self.disable_bias
       THEN [r EXCEPT !.out = AddBias(r.out, self.bias)]
       ELSE r

\* Autograd4bitQuantLinear.forward
forward(self, x, grad_enabled) ==
    LET r == IF self.bits = 4
             THEN LET z == IF ~self.is_v1_model THEN self.qzeros ELSE self.zeros IN
                  IF grad_enabled
                  THEN FwdResult(Apply(AutogradMatmul4bit, x, self.qweight, self.scales, z,
                                       self.g_idx, self.bits, self.maxq),
                                 AutogradMatmul4bit)
                  ELSE FwdResult(matmul4bit_with_backend(x, self.qweight, self.scales, z,
                                       self.g_idx, self.bits, self.maxq, self.groupsize),
                                 "none")
             ELSE IF self.bits = 2
             THEN IF self.qzeros = Missing
                  THEN FwdResult(OpResult(AttributeError, <<>>, NoOut, NoCtx), "none")
                  ELSE FwdResult(Apply(AutogradMatmul2bit, x, self.qweight, self.scales,
                                       self.qzeros, self.g_idx, self.bits, self.maxq),
                                 AutogradMatmul2bit)
             ELSE FwdResult(OpResult(ErrBitwidth, <<>>, NoOut, NoCtx), "none")
    IN IF r.exc # NoExc
       THEN r
       ELSE IF ~self.disable_bias
       THEN [r EXCEPT !.out = AddBias(r.out, self.bias)]
       ELSE r

(***************************************************************************)
(* Calls on a lone layer: construction, forward, backward.                 *)
(***************************************************************************)
\* a new layer takes the place of the previous one, whose autograd graph
\* (and context) is dropped with it
Construct(in_features, out_features, groupsize, is_v1_model, bits, fill) ==
    /\ layer' = Autograd4bitQuantLinear(in_features, out_features, groupsize,
                                        is_v1_model, bits, fill)
    /\ ctx' = NoCtx
    /\ call' = [NoCall EXCEPT !.op = "__init__"]
    /\ UNCHANGED <<registry, heap, load_args>>

Forward(requires_grad, grad_enabled) ==
    /\ layer.kind = QuantKind
    /\ LET r == forward(layer, X(requires_grad), grad_enabled) IN
       /\ ctx' = IF r.ctx # NoCtx THEN r.ctx ELSE ctx
       /\ call' = [NoCall EXCEPT !.op = "forward", !.grad_enabled = grad_enabled,
                                 !.x = X(requires_grad), !.exc = r.exc,
                                 !.applied = r.applied, !.kernels = r.kernels,
                                 !.out = r.out]
    /\ UNCHANGED <<registry, layer, heap, load_args>>

Backward ==
    /\ ctx # NoCtx
    /\ LET r == OpBackward(ctx, GradOutput) IN
       call' = [NoCall EXCEPT !.op = "backward", !.exc = r.exc, !.kernels = r.kernels,
                              !.grads = r.grads]
    /\ UNCHANGED <<registry, layer, ctx, heap, load_args>>

(***************************************************************************)
(* The host model: a tree of module objects in a heap.                     *)
(***************************************************************************)
Root == 1
Free == [kind |-> "free", children |-> NoChildren]

Module(children) == [kind |-> "Module", children |-> children]

\* torch.nn.Linear as the substitution reads it
Linear(in_features, out_features, w) ==
    [kind |-> "Linear", children |-> NoChildren,
     in_features |-> in_features, out_features |-> out_features,
     weight |-> Tensor("float32", <<out_features, in_features>>, w)]

\* dir() lists attribute names sorted
AttrOrder == <<"lm_head", "model", "q_proj">>

\* the linear layers a loader hands over as names (find_layers, line 269)
LinearPaths == {<<"lm_head">>, <<"model", "q_proj">>}

HostObjects(w) ==
    <<Module([lm_head |-> 2, model |-> 3]),
      Linear(Block, 2 * Block, w),
      Module([q_proj |-> 4]),
      Linear(2 * Block, Block, w)>>

ObjIds == 1..(Len(HostObjects(0)) + Cardinality(LinearPaths))

HostModel(w) ==
    [i \in ObjIds |-> IF i <= Len(HostObjects(w)) THEN HostObjects(w)[i] ELSE Free]

RECURSIVE ReachFrom(_, _)
ReachFrom(h, m) ==
    {m} \cup UNION {ReachFrom(h, h[m].children[a]) : a \in DOMAIN h[m].children}

\* objects dropped from the tree are collected
Collect(h) == [i \in ObjIds |-> IF i \in ReachFrom(h, Root) THEN h[i] ELSE Free]

\* the identity of a newly constructed object: none of the objects alive
FreshId(used) == CHOOSE i \in ObjIds \ used : \A j \in ObjIds \ used : i <= j

\* dir(module), restricted to the attributes that hold modules
Dir(h, m) == SelectSeq(AttrOrder, LAMBDA a : a \in DOMAIN h[m].children)

\* module.named_children()
named_children(h, m) == SelectSeq(AttrOrder, LAMBDA a : a \in DOMAIN h[m].children)

RECURSIVE Walk(_, _, _)
\* the object at an attribute path below m, 0 if there is none
Walk(h, m, path) ==
    IF path = <<>> THEN m
    ELSE IF Head(path) \in DOMAIN h[m].children
    THEN Walk(h, h[m].children[Head(path)], Tail(path))
    ELSE 0

RECURSIVE PathsFrom(_, _, _)
\* the fully-qualified attribute paths below m
PathsFrom(h, m, name) ==
    UNION {{Append(name, a)} \cup PathsFrom(h, h[m].children[a], Append(name, a)) :
           a \in DOMAIN h[m].children}

Paths(h) == PathsFrom(h, Root, <<>>)
At(h, path) == h[Walk(h, Root, path)]
QuantPaths(h) == {p \in Paths(h) : At(h, p).kind = QuantKind}

(***************************************************************************)
(* make_quant_for_4bit_autograd (lines 211-222).                           *)
(***************************************************************************)
\* mutant: in_features and out_features change places in the constructor call
SetAttr_swapped_features(st, module, attr, args, fill) ==
    LET tmp == st.heap[st.heap[module].children[attr]]
        id == FreshId(st.used)
    IN [heap |-> [st.heap EXCEPT
                    ![id] = Autograd4bitQuantLinear(tmp.out_features, tmp.in_features,
                                args.groupsize, args.is_v1_model, args.bits, fill),
                    ![module].children[attr] = id],
        used |-> st.used \cup {id}]

\* setattr(module, attr, Autograd4bitQuantLinear(tmp.in_features, ...))
SetAttr(st, module, attr, args, fill) ==
    LET tmp == st.heap[st.heap[module].children[attr]]
        id == FreshId(st.used)
    IN [heap |-> [st.heap EXCEPT
                    ![id] = Autograd4bitQuantLinear(tmp.in_features, tmp.out_features,
                                args.groupsize, args.is_v1_model, args.bits, fill),
                    ![module].children[attr] = id],
        used |-> st.used \cup {id}]

RECURSIVE SetAttrs(_, _, _, _, _, _, _)
\* for attr in dir(module): replace the attribute when its path is in names
SetAttrs(st, module, names, name, args, fill, attrs) ==
    IF attrs = <<>> THEN st
    ELSE LET attr == Head(attrs)
             name1 == Append(name, attr)
         IN SetAttrs(IF name1 \in names THEN SetAttr(st, module, attr, args, fill) ELSE st,
                     module, names, name, args, fill, Tail(attrs))

RECURSIVE make_quant_for_4bit_autograd(_, _, _, _, _, _)
RECURSIVE Descend(_, _, _, _, _, _, _)
\* for name1, child in module.named_children(): recurse
Descend(st, module, names, name, args, fill, kids) ==
    IF kids = <<>> THEN st
    ELSE LET name1 == Head(kids)
             child == st.heap[module].children[name1]
         IN Descend(make_quant_for_4bit_autograd(st, child, names, Append(name, name1),
                                                 args, fill),
                    module, names, name, args, fill, Tail(kids))

make_quant_for_4bit_autograd(st, module, names, name, args, fill) ==
    IF st.heap[module].kind = QuantKind
    THEN st
    ELSE LET st1 == SetAttrs(st, module, names, name, args, fill, Dir(st.heap, module))
         IN Descend(st1, module, names, name, args, fill, named_children(st1.heap, module))

MakeQuant(names, fill) ==
    LET st == make_quant_for_4bit_autograd([heap |-> heap, used |-> ReachFrom(heap, Root)],
                                           Root, names, <<>>, load_args, fill)
    IN /\ heap' = Collect(st.heap)
       /\ call' = [NoCall EXCEPT !.op = "make_quant_for_4bit_autograd", !.names = names,
                                 !.quantized_before = QuantPaths(heap)]
       /\ UNCHANGED <<registry, layer, ctx, load_args>>

(***************************************************************************)
(* Checkpoint loading (line 274) and precision conversion (lines 225-244). *)
(***************************************************************************)
IsTensor(t) == t.dtype \notin {"None", "Missing"}
is_floating_point(t) == t.dtype \in {"float32", "float16"}

\* float16 keeps fewer content tokens apart than float32
HalfRound(v) == v - (v % 2)

\* Tensor.half() and Tensor.float()
half(t) == Tensor("float16", t.shape, IF t.dtype = "float16" THEN t.val ELSE HalfRound(t.val))
float(t) == Tensor("float32", t.shape, t.val)

Cast(t, to) == IF to = "float16" THEN half(t) ELSE float(t)

\* nn.Module.half() / .float(): floating-point parameters and buffers only
CastFloating(t, to) == IF IsTensor(t) /\ is_floating_point(t) THEN Cast(t, to) ELSE t

ModuleCast(obj, to) ==
    IF obj.kind = "Linear"
    THEN [obj EXCEPT !.weight = CastFloating(@, to)]
    ELSE IF obj.kind = QuantKind
    THEN [obj EXCEPT !.zeros = CastFloating(@, to), !.qzeros = CastFloating(@, to),
                     !.scales = CastFloating(@, to), !.g_idx = CastFloating(@, to),
                     !.bias = CastFloating(@, to), !.qweight = CastFloating(@, to)]
    ELSE obj

\* the loop over named_modules() of model_to_half / model_to_float
QuantCast(m, to) ==
    IF m.kind = QuantKind
    THEN [m EXCEPT !.zeros = IF m.is_v1_model THEN Cast(@, to) ELSE @,
                   !.scales = Cast(@, to),
                   !.bias = Cast(@, to)]
    ELSE m

\* mutant: the loop of model_to_float was copied from model_to_half unchanged
model_to_float_copied_loop(h) ==
    [i \in ObjIds |-> IF i \in ReachFrom(h, Root)
                      THEN QuantCast(ModuleCast(h[i], "float32"), "float16")
                      ELSE h[i]]

model_to_half(h) ==
    [i \in ObjIds |-> IF i \in ReachFrom(h, Root)
                      THEN QuantCast(ModuleCast(h[i], "float16"), "float16")
                      ELSE h[i]]

model_to_float(h) ==
    [i \in ObjIds |-> IF i \in ReachFrom(h, Root)
                      THEN QuantCast(ModuleCast(h[i], "float32"), "float32")
                      ELSE h[i]]

ModelToHalf ==
    /\ heap' = model_to_half(heap)
    /\ call' = [NoCall EXCEPT !.op = "model_to_half"]
    /\ UNCHANGED <<registry, layer, ctx, load_args>>

ModelToFloat ==
    /\ heap' = model_to_float(heap)
    /\ call' = [NoCall EXCEPT !.op = "model_to_float"]
    /\ UNCHANGED <<registry, layer, ctx, load_args>>

\* a buffer takes the checkpoint's contents and keeps its dtype
Load(t, c) == IF IsTensor(t)
              THEN Tensor(t.dtype, t.shape, IF t.dtype = "float16" THEN HalfRound(c) ELSE c)
              ELSE t

\* load_checkpoint_and_dispatch: every registered buffer of the quantized
\* layers is populated from the checkpoint
LoadCheckpoint(c) ==
    /\ heap' = [i \in ObjIds |->
                  IF i \in ReachFrom(heap, Root) /\ heap[i].kind = QuantKind
                  THEN [heap[i] EXCEPT !.zeros = Load(@, c), !.qzeros = Load(@, c),
                                       !.scales = Load(@, c), !.g_idx = Load(@, c),
                                       !.bias = Load(@, c), !.qweight = Load(@, c)]
                  ELSE heap[i]]
    /\ call' = [NoCall EXCEPT !.op = "load_checkpoint"]
    /\ UNCHANGED <<registry, layer, ctx, load_args>>

(***************************************************************************)
(* Specifications.                                                         *)
(***************************************************************************)
LoadArgs(groupsize, is_v1_model, bits) ==
    [groupsize |-> groupsize, is_v1_model |-> is_v1_model, bits |-> bits]

\* the defaults of the loaders: groupsize=-1, is_v1_model=False, bits=4
DefaultArgs == LoadArgs(-1, FALSE, 4)

InitRegistry ==
    /\ gptq_backend_loaded \in BOOLEAN
    /\ triton_backend_loaded \in BOOLEAN
    /\ debug_asserts \in BOOLEAN
    /\ LET s == InitialSelection(gptq_backend_loaded, triton_backend_loaded) IN
       /\ AutogradMatmul4bit = s.op4
       /\ AutogradMatmul2bit = s.op2
       /\ backend = s.backend
    /\ last_switch = ""
    /\ layer = NoLayer
    /\ ctx = NoCtx
    /\ call = NoCall

\* after import, with the host model built and the loader defaults
Init ==
    /\ InitRegistry
    /\ heap = HostModel(0)
    /\ load_args = DefaultArgs

Next ==
    \/ \E b \in BackendNames : SwitchBackendTo(b)
    \/ \E i \in Features, o \in Features, gs \in GroupSizes,
          bits \in BitWidths, fill \in Val, v1 \in BOOLEAN :
          Construct(i, o, gs, v1, bits, fill)
    \/ \E rg \in BOOLEAN, ge \in BOOLEAN : Forward(rg, ge)
    \/ Backward

Spec == Init /\ [][Next]_vars

\* a loader run: the host model is built with unspecified weights and the
\* loader is given its arguments; the tree operations never read the registry
TreeInit ==
    /\ InitRegistry
    /\ gptq_backend_loaded /\ triton_backend_loaded /\ debug_asserts
    /\ \E w \in Val : heap = HostModel(w)
    /\ \E gs \in GroupSizes, v1 \in BOOLEAN, bits \in BitWidths :
          load_args = LoadArgs(gs, v1, bits)

TreeNext ==
    \/ \E names \in SUBSET LinearPaths, fill \in Val : MakeQuant(names, fill)
    \/ \E c \in Val : LoadCheckpoint(c)
    \/ ModelToHalf
    \/ ModelToFloat

TreeSpec == TreeInit /\ [][TreeNext]_vars

(***************************************************************************)
(* Properties of the backend registry, the layer and the operators.        *)
(***************************************************************************)
Detected(b) ==
    \/ b = "cuda" /\ gptq_backend_loaded
    \/ b = "triton" /\ triton_backend_loaded

Variants == {AutogradMatmul4bitCuda, AutogradMatmul2bitCuda, AutogradMatmul4bitTriton}

\* the zero-point argument forward passes for a 4-bit layer
ZeroArg(l) == IF ~l.is_v1_model THEN l.qzeros ELSE l.zeros

DirectKernel(b) == IF b = "cuda" THEN "mm4b.matmul4bit" ELSE "tu.triton_matmul"

BackendOfOp(op) ==
    IF op \in {AutogradMatmul4bitCuda, AutogradMatmul2bitCuda} THEN "cuda"
    ELSE IF op = AutogradMatmul4bitTriton THEN "triton"
    ELSE None

\* C1: a switch_backend_to call naming a backend that was not detected at
\* load time, or a name other than 'cuda' and 'triton', raises and leaves
\* the active backend name and the bound operators as they were.
C1_FailedSwitchKeepsSelection ==
    [][(call'.op = "switch_backend_to" /\ ~Detected(call'.to_backend))
        => /\ call'.exc # NoExc
           /\ backend' = backend
           /\ AutogradMatmul4bit' = AutogradMatmul4bit
           /\ AutogradMatmul2bit' = AutogradMatmul2bit]_vars

C1_Witness ==
    /\ call.op = "switch_backend_to"
    /\ call.to_backend = "triton"
    /\ call.exc = ErrTriton
    /\ backend = "cuda"
    /\ last_switch = "cuda"

C2_SwitchTakesEffect ==
    /\ (call.op = "switch_backend_to" /\ Detected(call.to_backend))
         => (call.exc = NoExc /\ backend = call.to_backend)
    /\ last_switch # "" => backend = last_switch

\* C2 as claimed: after a successful switch_backend_to(b) the active backend
\* is b, and until the next successful switch every forward of a 4-bit
\* layer with gradient tracking disabled calls the direct kernel of b.
C2_Original ==
    /\ C2_SwitchTakesEffect
    /\ (call.op = "forward" /\ layer.bits = 4 /\ ~call.grad_enabled /\ last_switch # "")
         => /\ call.exc = NoExc
            /\ Len(call.kernels) = 1
            /\ call.kernels[1].fn = DirectKernel(last_switch)

\* C2 amended: as claimed, except that with the JIT-kernel backend active,
\* assertions on and a zero-point buffer that is not int32 (the legacy
\* layout) the forward fails with AssertionError before any kernel is
\* called; the other backend's kernel is never called.
C2_InferenceRoutesToSelected ==
    /\ C2_SwitchTakesEffect
    /\ (call.op = "forward" /\ layer.bits = 4 /\ ~call.grad_enabled /\ last_switch # "")
         => IF last_switch = "triton" /\ debug_asserts /\ ZeroArg(layer).dtype # "int32"
            THEN call.exc = AssertionError /\ call.kernels = <<>>
            ELSE /\ call.exc = NoExc
                 /\ Len(call.kernels) = 1
                 /\ call.kernels[1].fn = DirectKernel(last_switch)

C2_Witness ==
    /\ call.op = "forward"
    /\ layer.bits = 4
    /\ ~call.grad_enabled
    /\ gptq_backend_loaded
    /\ last_switch = "triton"
    /\ call.exc = NoExc
    /\ call.kernels[1].fn = "tu.triton_matmul"

NoBackendForward ==
    /\ call.op = "forward"
    /\ ~gptq_backend_loaded
    /\ ~triton_backend_loaded
    /\ layer.bits \in {2, 4}

\* C3 as claimed: with neither backend detected, every forward of a layer
\* of bit-width 4 or 2 fails with NotImplemented and returns no value,
\* with gradient tracking enabled or disabled.
C3_Original ==
    NoBackendForward => (call.exc = NotImplementedError /\ call.out = NoOut)

\* C3 amended: with neither backend detected, every forward of a layer of
\* bit-width 4 or 2 fails, calls no kernel and returns no value; the error
\* is NotImplemented when the call goes through an autograd operator (4-bit
\* with gradient tracking enabled, 2-bit grouped layout), ValueError
\* 'Backend not supported.' for 4-bit with gradient tracking disabled, and
\* AttributeError (no qzeros) for a 2-bit legacy-layout layer.
C3_NoBackendFailsClosed ==
    NoBackendForward
        => /\ call.out = NoOut
           /\ call.kernels = <<>>
           /\ call.exc = IF layer.bits = 4
                         THEN IF call.grad_enabled THEN NotImplementedError ELSE ErrBackend
                         ELSE IF layer.is_v1_model THEN AttributeError
                         ELSE NotImplementedError

C3_Witness ==
    /\ NoBackendForward
    /\ layer.bits = 4
    /\ ~call.grad_enabled
    /\ call.exc = ErrBackend

\* C4: backward of each operator variant, when the activation input needs a
\* gradient, returns seven slots: slots 2..7 are None and slot 1 is the
\* transpose kernel of the variant applied to grad_output and the tensors
\* forward saved (the layer's qweight, scales, zero points and g_idx).
C4_BackwardGradSlots ==
    /\ (call.op = "forward" /\ call.applied \in Variants)
         => ctx.saved_tensors = <<layer.qweight, layer.scales, ZeroArg(layer), layer.g_idx>>
    /\ (call.op = "backward" /\ ctx.op \in Variants /\ ctx.needs_input_grad[1])
         => /\ call.exc = NoExc
            /\ Len(call.grads) = 7
            /\ \A i \in 2..7 : call.grads[i] = NoneG
            /\ call.grads[1] # NoneG
            /\ call.grads[1].transpose
            /\ call.grads[1].fn =
                 IF ctx.op = AutogradMatmul4bitTriton THEN "tu.triton_matmul_transpose"
                 ELSE IF ctx.op = AutogradMatmul2bitCuda THEN "mm4b._matmul2bit_v2_recons"
                 ELSE IF ctx.saved_tensors[4] = NoneT THEN "mm4b._matmul4bit_v1_recons"
                 ELSE "mm4b._matmul4bit_v2_recons"
            /\ call.grads[1].args[1] = GradOutput
            /\ \A i \in 1..3 : call.grads[1].args[i + 1] = ctx.saved_tensors[i]
            /\ ctx.saved_tensors[4] # NoneT => call.grads[1].args[5] = ctx.saved_tensors[4]
            /\ call.kernels = <<call.grads[1]>>

C4_Witness ==
    /\ call.op = "backward"
    /\ ctx.op = AutogradMatmul4bitCuda
    /\ ctx.needs_input_grad[1]
    /\ ctx.saved_tensors[4] = NoneT
    /\ call.grads[1].fn = "mm4b._matmul4bit_v1_recons"

\* C8: constructing a layer with a bit-width outside {2, 4} succeeds, and
\* every forward of such a layer fails with 'Unsupported bitwidth.' with no
\* operator applied, no kernel called and no bias added, whatever the
\* active backend and the gradient mode.
C8_UnsupportedBitwidth ==
    /\ (call.op = "__init__" /\ layer.bits \notin {2, 4})
         => /\ call.exc = NoExc
            /\ layer.kind = QuantKind
            /\ call.kernels = <<>>
            /\ call.applied = "none"
    /\ (call.op = "forward" /\ layer.bits \notin {2, 4})
         => /\ call.exc = ErrBitwidth
            /\ call.applied = "none"
            /\ call.kernels = <<>>
            /\ call.out = NoOut

C8_Witness ==
    /\ call.op = "forward"
    /\ layer.bits = 3
    /\ call.grad_enabled
    /\ backend = "triton"
    /\ call.exc = ErrBitwidth

\* C9 as claimed: backward of each operator variant, when the activation
\* input needs no gradient, calls no kernel and returns None in all seven
\* slots.
C9_Original ==
    (call.op = "backward" /\ ctx.op \in Variants /\ ~ctx.needs_input_grad[1])
        => /\ call.exc = NoExc
           /\ call.kernels = <<>>
           /\ call.grads = <<NoneG, NoneG, NoneG, NoneG, NoneG, NoneG, NoneG>>

\* C10 as claimed: every forward that goes through an autograd operator
\* uses the operator of the backend that is active.
C10_Original ==
    (call.op = "forward" /\ call.applied # "none")
        => BackendOfOp(call.applied) = backend

\* C10 amended: a 4-bit forward with gradient tracking enabled uses the
\* operator of the active backend; a 2-bit forward uses the operator bound
\* at load time whatever the active backend: the compiled-kernel 2-bit
\* operator when that backend was detected, the placeholder otherwise.
C10_OperatorOfForward ==
    (call.op = "forward" /\ call.applied # "none")
        => IF layer.bits = 4
           THEN /\ call.grad_enabled
                /\ call.applied = AutogradMatmul4bit
                /\ BackendOfOp(call.applied) = backend
           ELSE /\ layer.bits = 2
                /\ call.applied = IF gptq_backend_loaded THEN AutogradMatmul2bitCuda
                                  ELSE AutogradMatmul4bitNotImplemented

C10_Witness ==
    /\ call.op = "forward"
    /\ layer.bits = 2
    /\ backend = "triton"
    /\ call.applied = AutogradMatmul2bitCuda
    /\ call.exc = NoExc

(***************************************************************************)
(* Properties of the substitution and of the precision conversions.        *)
(***************************************************************************)
MakeQuantOp == "make_quant_for_4bit_autograd"
Conversions == {"model_to_half", "model_to_float"}
TargetOf(op) == IF op = "model_to_half" THEN "float16" ELSE "float32"

\* C5 as claimed: a second make_quant_for_4bit_autograd call with the same
\* target names, on a model whose quantized layers are exactly those names,
\* leaves every module object and every buffer as it was.
C5_Original ==
    [][(call'.op = MakeQuantOp /\ call'.names # {} /\ QuantPaths(heap) = call'.names)
        => heap' = heap]_vars

C7_Dtypes ==
    call.op \in Conversions
        => \A p \in QuantPaths(heap) :
              LET m == At(heap, p) IN
              /\ m.scales.dtype = TargetOf(call.op)
              /\ m.bias.dtype = TargetOf(call.op)
              /\ m.is_v1_model => m.zeros.dtype = TargetOf(call.op)
              /\ m.qweight.dtype = "int32"
              /\ ~m.is_v1_model => (m.qzeros.dtype = "int32" /\ m.g_idx.dtype = "int32")

C7_Frame ==
    call'.op \in Conversions
        => /\ \A p \in QuantPaths(heap) :
                 /\ At(heap', p).kind = QuantKind
                 /\ At(heap', p).qweight = At(heap, p).qweight
                 /\ At(heap', p).qzeros = At(heap, p).qzeros
                 /\ At(heap', p).g_idx = At(heap, p).g_idx
           /\ call.op = call'.op => heap' = heap

\* C7: after model_to_half or model_to_float the scales and bias of every
\* quantized layer (and zeros of a legacy-layout one) have the requested
\* precision; qweight, qzeros and g_idx keep dtype int32 and their contents;
\* repeating the call that was just made changes nothing.
C7_PrecisionConversion == []C7_Dtypes /\ [][C7_Frame]_vars

C7_Witness ==
    /\ call.op = "model_to_float"
    /\ \E p \in QuantPaths(heap) :
          /\ At(heap, p).is_v1_model
          /\ At(heap, p).zeros.dtype = "float32"
          /\ At(heap, p).qweight.val = 1
          /\ At(heap, p).scales.val = 0

====
